---- MODULE Spec2Model ----
(***************************************************************************)
(* Model of calendarify's configuration loader (src/src/config/index.ts):  *)
(* validateObjectFields, validateEnum, validateConfig and loadConfig.      *)
(*                                                                         *)
(* A JSON value is a record of one fixed shape                              *)
(*     [t, s, keys, items]                                                  *)
(* t     : "null" | "boolean" | "number" | "string" | "array" | "object"    *)
(*         ("undefined" for a property that is not there)                   *)
(* s     : the text of a string, the literal of a number or boolean         *)
(* keys  : an object's own keys in iteration order (Object.entries order)   *)
(* items : an array's elements, or an object's values aligned with keys     *)
(***************************************************************************)
EXTENDS Integers, Sequences, FiniteSets, TLC

VARIABLES fs, path, pc, result, ran

vars == <<fs, path, pc, result, ran>>

(***************************************************************************)
(* JSON values as JSON.parse produces them                                 *)
(***************************************************************************)
JUndefined == [t |-> "undefined", s |-> "", keys |-> <<>>, items |-> <<>>]

JNull == [t |-> "null", s |-> "", keys |-> <<>>, items |-> <<>>]

JBool(lit) == [t |-> "boolean", s |-> lit, keys |-> <<>>, items |-> <<>>]

JNum(lit) == [t |-> "number", s |-> lit, keys |-> <<>>, items |-> <<>>]

JStr(text) == [t |-> "string", s |-> text, keys |-> <<>>, items |-> <<>>]

JArr(elems) == [t |-> "array", s |-> "", keys |-> <<>>, items |-> elems]

JObj(ks, vs) == [t |-> "object", s |-> "", keys |-> ks, items |-> vs]

\* typeof v
TypeOf(v) ==
    CASE v.t = "null" -> "object"
      [] v.t = "array" -> "object"
      [] OTHER -> v.t

\* the truthiness of v, as !v reads it
Truthy(v) ==
    CASE v.t \in {"null", "undefined"} -> FALSE
      [] v.t = "boolean" -> v.s = "true"
      [] v.t = "number" -> v.s # "0"
      [] v.t = "string" -> v.s # ""
      [] OTHER -> TRUE

\* Array.isArray(v)
IsArray(v) == v.t = "array"

\* field in obj, for obj an object or an array (none of the queried names is
\* a property of Object.prototype or Array.prototype)
In(field, obj) == \E i \in 1..Len(obj.keys) : obj.keys[i] = field

\* obj[field]
Get(obj, field) ==
    IF In(field, obj)
    THEN obj.items[CHOOSE i \in 1..Len(obj.keys) : obj.keys[i] = field]
    ELSE JUndefined

(***************************************************************************)
(* Errors.  A thrown error is [class, message]; NoError is "nothing thrown" *)
(***************************************************************************)
NoError == [class |-> "", message |-> ""]

Thrown(e) == e.class # ""

ConfigValidationError(message) == [class |-> "ConfigValidationError", message |-> message]

GenericError(message) == [class |-> "Error", message |-> message]

(***************************************************************************)
(* validateObjectFields: fields is the sequence of <<field, type>> pairs in *)
(* the order Object.entries(fields) yields them.                            *)
(***************************************************************************)
RECURSIVE FieldLoop(_, _, _, _)
FieldLoop(obj, fields, objName, i) ==
    IF i > Len(fields) THEN NoError
    ELSE LET field == fields[i][1]
             type == fields[i][2]
             value == Get(obj, field)
         IN  IF ~In(field, obj)
             THEN ConfigValidationError("Missing required field '" \o field \o "' in " \o objName)
             ELSE IF type = "string" /\ TypeOf(value) # "string"
             THEN ConfigValidationError("Field '" \o field \o "' in " \o objName \o " must be a string")
             ELSE IF type = "array" /\ ~IsArray(value)
             THEN ConfigValidationError("Field '" \o field \o "' in " \o objName \o " must be an array")
             ELSE IF type = "object" /\ (~Truthy(value) \/ TypeOf(value) # "object" \/ IsArray(value))
             THEN ConfigValidationError("Field '" \o field \o "' in " \o objName \o " must be an object")
             ELSE FieldLoop(obj, fields, objName, i + 1)

\* the variant without the guard of line 19: `field in obj` on a value that is
\* no object throws a TypeError
validateObjectFieldsUnguarded(obj, fields, objName) ==
    IF obj.t \notin {"object", "array"}
    THEN [class |-> "TypeError", message |-> "Cannot use 'in' operator to search for a key"]
    ELSE FieldLoop(obj, fields, objName, 1)

validateObjectFields(obj, fields, objName) ==
    IF ~Truthy(obj) \/ TypeOf(obj) # "object"
    THEN ConfigValidationError(objName \o " must be an object")
    ELSE FieldLoop(obj, fields, objName, 1)

(***************************************************************************)
(* validateEnum                                                            *)
(***************************************************************************)
RECURSIVE Join(_, _)
Join(strs, sep) ==
    IF Len(strs) = 0 THEN ""
    ELSE IF Len(strs) = 1 THEN strs[1]
    ELSE strs[1] \o sep \o Join(Tail(strs), sep)

Includes(arr, x) == \E i \in 1..Len(arr) : arr[i] = x

\* the variant that compares case-insensitively (the model's upper-case
\* spellings are folded by hand)
FoldCase(x) ==
    CASE x = "FULL_SYNC" -> "full_sync"
      [] x = "UPDATE" -> "update"
      [] x = "Warn" -> "warn"
      [] OTHER -> x

validateEnumIgnoringCase(value, allowedValues, fieldName) ==
    IF TypeOf(value) # "string" \/ ~Includes(allowedValues, FoldCase(value.s))
    THEN ConfigValidationError("Invalid value for '" \o fieldName \o "'. Must be one of: "
                               \o Join(allowedValues, ", "))
    ELSE NoError

validateEnum(value, allowedValues, fieldName) ==
    IF TypeOf(value) # "string" \/ ~Includes(allowedValues, value.s)
    THEN ConfigValidationError("Invalid value for '" \o fieldName \o "'. Must be one of: "
                               \o Join(allowedValues, ", "))
    ELSE NoError

(***************************************************************************)
(* validateConfig                                                          *)
(***************************************************************************)
\* the variant that forgets the last declared field
TopFieldsWithoutTimezone ==
    << <<"calendars", "array">>, <<"shifts", "object">>, <<"employees", "object">>,
       <<"deletion_policy", "string">>, <<"event_handling", "object">> >>

TopFields ==
    << <<"calendars", "array">>, <<"shifts", "object">>, <<"employees", "object">>,
       <<"deletion_policy", "string">>, <<"event_handling", "object">>,
       <<"timezone", "string">> >>

DeletionPolicies == <<"full_sync", "preserve_manual", "append_only">>

CalendarFields == << <<"calendar_id", "string">>, <<"employees", "array">> >>

ShiftFields == << <<"label", "string">>, <<"color", "string">>, <<"period", "object">> >>

PeriodFields == << <<"start", "string">>, <<"end", "string">> >>

EventHandlingFields ==
    << <<"duplicate_shifts", "string">>, <<"overlapping_shifts", "string">>,
       <<"api_failures", "string">>, <<"partial_updates", "string">>,
       <<"missing_employees", "string">>, <<"extra_employees", "string">> >>

\* the six validateEnum calls on event_handling, in the order they are made
EventHandlingEnums ==
    << <<"duplicate_shifts", <<"update", "skip", "create_new">> >>,
       <<"overlapping_shifts", <<"error", "warn", "ignore">> >>,
       <<"api_failures", <<"abort", "retry", "log_continue">> >>,
       <<"partial_updates", <<"preserve_existing", "revert_all", "continue">> >>,
       <<"missing_employees", <<"error", "warn_continue", "skip">> >>,
       <<"extra_employees", <<"create", "warn", "ignore">> >> >>

Char(str, i) == SubSeq(str, i, i)

Digits == {"0", "1", "2", "3", "4", "5", "6", "7", "8", "9"}

\* the variant with an optional first hour digit: /^([0-1]?[0-9]|2[0-3]):([0-5][0-9])$/
timeRegexTestLoose(str) ==
    \/ /\ Len(str) = 5
       /\ \/ Char(str, 1) \in {"0", "1"} /\ Char(str, 2) \in Digits
          \/ Char(str, 1) = "2" /\ Char(str, 2) \in {"0", "1", "2", "3"}
       /\ Char(str, 3) = ":"
       /\ Char(str, 4) \in {"0", "1", "2", "3", "4", "5"}
       /\ Char(str, 5) \in Digits
    \/ /\ Len(str) = 4
       /\ Char(str, 1) \in Digits
       /\ Char(str, 2) = ":"
       /\ Char(str, 3) \in {"0", "1", "2", "3", "4", "5"}
       /\ Char(str, 4) \in Digits

\* /^([0-1][0-9]|2[0-3]):([0-5][0-9])$/.test(str): both alternatives of the
\* group are two characters wide and the pattern is anchored at both ends
\* ($ without the m flag matches at the end of the input only)
timeRegexTest(str) ==
    /\ Len(str) = 5
    /\ \/ Char(str, 1) \in {"0", "1"} /\ Char(str, 2) \in Digits
       \/ Char(str, 1) = "2" /\ Char(str, 2) \in {"0", "1", "2", "3"}
    /\ Char(str, 3) = ":"
    /\ Char(str, 4) \in {"0", "1", "2", "3", "4", "5"}
    /\ Char(str, 5) \in Digits

\* the variant that also requires every employee of a calendar to be a string
validateCalendarStrict(calendar, index) ==
    LET objName == "calendars[" \o ToString(index) \o "]"
        r == validateObjectFields(calendar, CalendarFields, objName)
        emps == Get(calendar, "employees").items
    IN  IF Thrown(r) THEN r
        ELSE IF \E i \in 1..Len(emps) : TypeOf(emps[i]) # "string"
        THEN ConfigValidationError("Field 'employees' in " \o objName \o " must hold strings")
        ELSE NoError

\* the body of the calendars loop, index counted from 0
validateCalendar(calendar, index) ==
    validateObjectFields(calendar, CalendarFields, "calendars[" \o ToString(index) \o "]")

RECURSIVE CalendarLoop(_, _)
CalendarLoop(calendars, i) ==
    IF i > Len(calendars.items) THEN NoError
    ELSE LET r == validateCalendar(calendars.items[i], i - 1)
         IN  IF Thrown(r) THEN r ELSE CalendarLoop(calendars, i + 1)

\* the body of the shifts loop
validateShift(key, shift) ==
    LET r1 == validateObjectFields(shift, ShiftFields, "shifts." \o key)
    IN  IF Thrown(r1) THEN r1
        ELSE
    LET period == Get(shift, "period")
        r2 == validateObjectFields(period, PeriodFields, "shifts." \o key \o ".period")
    IN  IF Thrown(r2) THEN r2
        ELSE IF ~timeRegexTest(Get(period, "start").s)
        THEN ConfigValidationError("Invalid time format for shifts." \o key
                                   \o ".period.start. Must be HH:MM format.")
        ELSE IF ~timeRegexTest(Get(period, "end").s)
        THEN ConfigValidationError("Invalid time format for shifts." \o key
                                   \o ".period.end. Must be HH:MM format.")
        ELSE NoError

RECURSIVE ShiftLoop(_, _)
ShiftLoop(shifts, i) ==
    IF i > Len(shifts.keys) THEN NoError
    ELSE LET r == validateShift(shifts.keys[i], shifts.items[i])
         IN  IF Thrown(r) THEN r ELSE ShiftLoop(shifts, i + 1)

RECURSIVE EnumLoop(_, _)
EnumLoop(eventHandling, i) ==
    IF i > Len(EventHandlingEnums) THEN NoError
    ELSE LET field == EventHandlingEnums[i][1]
             r == validateEnum(Get(eventHandling, field), EventHandlingEnums[i][2],
                               "event_handling." \o field)
         IN  IF Thrown(r) THEN r ELSE EnumLoop(eventHandling, i + 1)

\* the zone identifiers the host's timezone database resolves, among those the
\* model's documents use
HostTimeZones == {"Europe/Madrid", "UTC", "America/New_York"}

\* Intl.DateTimeFormat(undefined, { timeZone }): an undefined timeZone selects
\* the host's default zone; an identifier the host does not resolve throws
IntlDateTimeFormat(timeZone) ==
    IF timeZone.t = "undefined" \/ (timeZone.t = "string" /\ timeZone.s \in HostTimeZones)
    THEN NoError
    ELSE [class |-> "RangeError", message |-> "Invalid time zone specified: " \o timeZone.s]

\* the variant whose catch block swallows the error
validateTimezoneSwallowed(timezone) == NoError

\* the try/catch around Intl.DateTimeFormat
validateTimezone(timezone) ==
    IF Thrown(IntlDateTimeFormat(timezone))
    THEN ConfigValidationError("Invalid timezone: " \o timezone.s)
    ELSE NoError

\* the variant that checks deletion_policy after the calendars and the shifts
validateConfigPolicyLate(config) ==
    LET r1 == validateObjectFields(config, TopFields, "config")
    IN  IF Thrown(r1) THEN r1 ELSE
    LET r3 == CalendarLoop(Get(config, "calendars"), 1)
    IN  IF Thrown(r3) THEN r3 ELSE
    LET r4 == ShiftLoop(Get(config, "shifts"), 1)
    IN  IF Thrown(r4) THEN r4 ELSE
    LET r2 == validateEnum(Get(config, "deletion_policy"), DeletionPolicies, "deletion_policy")
    IN  IF Thrown(r2) THEN r2 ELSE
    LET r5 == validateObjectFields(Get(config, "event_handling"), EventHandlingFields,
                                   "event_handling")
    IN  IF Thrown(r5) THEN r5 ELSE
    LET r6 == EnumLoop(Get(config, "event_handling"), 1)
    IN  IF Thrown(r6) THEN r6 ELSE
    validateTimezone(Get(config, "timezone"))

\* validateConfig(config): NoError when it returns, else the error it throws
validateConfig(config) ==
    LET r1 == validateObjectFields(config, TopFields, "config")
    IN  IF Thrown(r1) THEN r1 ELSE
    LET r2 == validateEnum(Get(config, "deletion_policy"), DeletionPolicies, "deletion_policy")
    IN  IF Thrown(r2) THEN r2 ELSE
    LET r3 == CalendarLoop(Get(config, "calendars"), 1)
    IN  IF Thrown(r3) THEN r3 ELSE
    LET r4 == ShiftLoop(Get(config, "shifts"), 1)
    IN  IF Thrown(r4) THEN r4 ELSE
    LET r5 == validateObjectFields(Get(config, "event_handling"), EventHandlingFields,
                                   "event_handling")
    IN  IF Thrown(r5) THEN r5 ELSE
    LET r6 == EnumLoop(Get(config, "event_handling"), 1)
    IN  IF Thrown(r6) THEN r6 ELSE
    validateTimezone(Get(config, "timezone"))

(***************************************************************************)
(* loadConfig                                                              *)
(*                                                                         *)
(* The text of a file is kept as what JSON.parse makes of it: the message  *)
(* of the SyntaxError it throws ("" for well-formed text) and the value it *)
(* returns.  A file is what readFile settles with: the error it rejects    *)
(* with (NoError when it resolves) and the text it resolves with.          *)
(***************************************************************************)
WellFormed(value) == [syntaxError |-> "", value |-> value]

Malformed(message) == [syntaxError |-> message, value |-> JUndefined]

Readable(text) == [readError |-> NoError, text |-> text]

Unreadable(message) == [readError |-> GenericError(message), text |-> Malformed("")]

\* JSON.parse(configContent): [error, value]
JSONParse(configContent) ==
    IF configContent.syntaxError # ""
    THEN [error |-> [class |-> "SyntaxError", message |-> configContent.syntaxError],
          value |-> JUndefined]
    ELSE [error |-> NoError, value |-> configContent.value]

\* how a call settles: fulfilled with a value or rejected with an error
Fulfilled(value) == [state |-> "fulfilled", error |-> NoError, value |-> value]

Rejected(error) == [state |-> "rejected", error |-> error, value |-> JUndefined]

Pending == [state |-> "pending", error |-> NoError, value |-> JUndefined]

RECURSIVE KeepDeclared(_, _)
KeepDeclared(config, i) ==
    IF i > Len(TopFields) THEN <<>>
    ELSE <<Get(config, TopFields[i][1])>> \o KeepDeclared(config, i + 1)

\* the variant that returns a copy holding the declared fields only
ReturnDeclaredOnly(config) ==
    JObj([i \in 1..Len(TopFields) |-> TopFields[i][1]], KeepDeclared(config, 1))

\* return config
Return(config) == config

\* the variant that lets an error that is neither kind escape as it is
CatchRethrow(error) ==
    IF error.class = "SyntaxError"
    THEN ConfigValidationError("Invalid JSON in config file: " \o error.message)
    ELSE error

\* the catch block of loadConfig
Catch(error) ==
    IF error.class = "SyntaxError"
    THEN ConfigValidationError("Invalid JSON in config file: " \o error.message)
    ELSE IF error.class = "ConfigValidationError"
    THEN error
    ELSE GenericError("Failed to load config file: " \o error.message)

\* the rest of the try block once readFile has resolved with configContent
AfterRead(configContent) ==
    LET parsed == JSONParse(configContent)
    IN  IF Thrown(parsed.error) THEN Rejected(Catch(parsed.error))
        ELSE LET v == validateConfig(parsed.value)
             IN  IF Thrown(v) THEN Rejected(Catch(v))
                 ELSE Fulfilled(Return(parsed.value))

\* the steps the rest of the try block runs
StepsAfterRead(configContent) ==
    IF Thrown(JSONParse(configContent).error)
    THEN <<"JSON.parse">>
    ELSE <<"JSON.parse", "validateConfig">>

(***************************************************************************)
(* The calls.  path[c] is the argument of call c and DOMAIN path the calls *)
(* of the run; fs is the file system they read.                            *)
(***************************************************************************)
Calls == DOMAIN path

\* the variant in which configPath lives in one variable that all calls share:
\* a read delivers the file of the call that entered last, here the
\* highest-numbered call that has entered
SharedPathContent(c) ==
    fs[path[CHOOSE d \in Calls : /\ pc[d] # "start"
                                 /\ \A e \in Calls : pc[e] # "start" => e <= d]]

\* what readFile(configPath, 'utf-8') of call c settles with
ReadFile(c) == fs[path[c]]

\* loadConfig(path[c]) is called and runs up to its await
Call(c) ==
    /\ pc[c] = "start"
    /\ pc' = [pc EXCEPT ![c] = "awaitReadFile"]
    /\ ran' = [ran EXCEPT ![c] = <<"readFile">>]
    /\ UNCHANGED <<fs, path, result>>

\* readFile resolves: the call parses, validates and settles in one turn
ReadFileResolve(c) ==
    /\ pc[c] = "awaitReadFile"
    /\ ~Thrown(ReadFile(c).readError)
    /\ result' = [result EXCEPT ![c] = AfterRead(ReadFile(c).text)]
    /\ ran' = [ran EXCEPT ![c] = @ \o StepsAfterRead(ReadFile(c).text)]
    /\ pc' = [pc EXCEPT ![c] = "done"]
    /\ UNCHANGED <<fs, path>>

\* readFile rejects: the catch block settles the call
ReadFileReject(c) ==
    /\ pc[c] = "awaitReadFile"
    /\ Thrown(ReadFile(c).readError)
    /\ result' = [result EXCEPT ![c] = Rejected(Catch(ReadFile(c).readError))]
    /\ pc' = [pc EXCEPT ![c] = "done"]
    /\ UNCHANGED <<fs, path, ran>>

(***************************************************************************)
(* The documents of the runs: the valid document of the test suite, and    *)
(* that document with one top-level field replaced by any variant of any   *)
(* field, or with up to MaxFaults fields replaced by the combined variants.*)
(***************************************************************************)
MaxFaults == 3

NumCalls == 2

Paths == {"config.json", "other.json"}

\* marks a field that a document leaves out
Absent == [t |-> "absent", s |-> "", keys |-> <<>>, items |-> <<>>]

Calendar(calendarId, employees) == JObj(<<"calendar_id", "employees">>, <<calendarId, employees>>)

Period(start, end) == JObj(<<"start", "end">>, <<JStr(start), JStr(end)>>)

Shift(label, color, period) ==
    JObj(<<"label", "color", "period">>, <<label, color, period>>)

MorningShift == Shift(JStr("Morning Shift"), JStr("#FFD700"), Period("08:00", "16:00"))

NightShift == Shift(JStr("Night Shift"), JStr("#483D8B"), Period("22:00", "06:00"))

ShiftAt(start, end) == Shift(JStr("Morning Shift"), JStr("#FFD700"), Period(start, end))

Employee(color) == JObj(<<"color">>, <<JStr(color)>>)

EventHandling(vs) ==
    JObj([i \in 1..Len(EventHandlingFields) |-> EventHandlingFields[i][1]], vs)

ValidCalendars ==
    JArr(<<Calendar(JStr("jane.doe@example.com"), JArr(<<JStr("Jane Doe")>>))>>)

ValidShifts == JObj(<<"M", "N">>, <<MorningShift, NightShift>>)

ValidEmployees == JObj(<<"Jane Doe">>, <<Employee("#FF5733")>>)

ValidPolicies ==
    <<JStr("update"), JStr("error"), JStr("log_continue"), JStr("preserve_existing"),
      JStr("warn_continue"), JStr("ignore")>>

ValidEventHandling == EventHandling(ValidPolicies)

\* the names of a document's top-level fields, the undeclared "comment" last
DocFields ==
    <<"calendars", "shifts", "employees", "deletion_policy", "event_handling",
      "timezone", "comment">>

\* validConfig of the test suite, field by field (it holds no "comment")
ValidFields ==
    <<ValidCalendars, ValidShifts, ValidEmployees, JStr("full_sync"),
      ValidEventHandling, JStr("Europe/Madrid"), Absent>>

RECURSIVE PresentKeys(_, _)
PresentKeys(vals, i) ==
    IF i > Len(vals) THEN <<>>
    ELSE (IF vals[i] = Absent THEN <<>> ELSE <<DocFields[i]>>) \o PresentKeys(vals, i + 1)

RECURSIVE PresentItems(_, _)
PresentItems(vals, i) ==
    IF i > Len(vals) THEN <<>>
    ELSE (IF vals[i] = Absent THEN <<>> ELSE <<vals[i]>>) \o PresentItems(vals, i + 1)

\* the document holding the given values of DocFields, the absent ones left out
Doc(vals) == JObj(PresentKeys(vals, 1), PresentItems(vals, 1))

ValidConfig == Doc(ValidFields)

CalendarsVariants ==
    {Absent, JNull, JStr("x"), JObj(<<>>, <<>>),
     JArr(<<>>),
     JArr(<<JNull>>),
     JArr(<<JStr("jane.doe@example.com")>>),
     JArr(<<JObj(<<"employees">>, <<JArr(<<>>)>>)>>),
     JArr(<<Calendar(JNum("5"), JArr(<<>>))>>),
     JArr(<<JObj(<<"calendar_id">>, <<JStr("a@example.com")>>)>>),
     JArr(<<Calendar(JStr("a@example.com"), JObj(<<>>, <<>>))>>),
     JArr(<<Calendar(JStr("a@example.com"), JArr(<<>>)), JNum("0")>>),
     JArr(<<Calendar(JStr("a@example.com"), JStr("Jane Doe")),
            JArr(<<>>)>>),
     JArr(<<Calendar(JStr("a@example.com"),
                     JArr(<<JNum("1"), JNull, JStr("Ghost"), JObj(<<>>, <<>>)>>))>>),
     JArr(<<JObj(<<"calendar_id", "employees", "note">>,
                 <<JStr("a@example.com"), JArr(<<JStr("Jane Doe")>>), JNull>>)>>)}

\* values of one shift
ShiftStructures ==
    {JNull, JStr("x"), JNum("0"), JArr(<<>>), JObj(<<>>, <<>>),
     Shift(JNum("5"), JStr("#FFD700"), Period("08:00", "16:00")),
     JObj(<<"label", "period">>, <<JStr("Morning Shift"), Period("08:00", "16:00")>>),
     Shift(JStr("Morning Shift"), JNull, Period("08:00", "16:00")),
     JObj(<<"label", "color">>, <<JStr("Morning Shift"), JStr("#FFD700")>>),
     Shift(JStr("Morning Shift"), JStr("#FFD700"), JNull),
     Shift(JStr("Morning Shift"), JStr("#FFD700"), JArr(<<>>)),
     Shift(JStr("Morning Shift"), JStr("#FFD700"), JStr("08:00-16:00")),
     Shift(JStr("Morning Shift"), JStr("#FFD700"), JObj(<<>>, <<>>)),
     Shift(JStr("Morning Shift"), JStr("#FFD700"),
           JObj(<<"start", "end">>, <<JNum("8"), JStr("16:00")>>)),
     Shift(JStr("Morning Shift"), JStr("#FFD700"), JObj(<<"start">>, <<JStr("08:00")>>)),
     Shift(JStr("Morning Shift"), JStr("#FFD700"),
           JObj(<<"start", "end">>, <<JStr("08:00"), JNull>>)),
     Shift(JNum("5"), JStr("#FFD700"), Period("8:00", "24:00")),
     JObj(<<"label", "color", "period", "note">>,
          <<JStr("Morning Shift"), JStr("red"), Period("00:00", "23:59"), JNum("1")>>)}

ShiftTimes ==
    {ShiftAt("8:00", "16:00"), ShiftAt("08:00", "24:00"), ShiftAt("8:00", "24:00"),
     ShiftAt("12:60", "8:0"), ShiftAt("23:59", "00:00"), ShiftAt("16:00", "08:00")}

ShiftsVariants ==
    {Absent, JNull, JStr("x"), JArr(<<>>), JObj(<<>>, <<>>)}
    \cup {JObj(<<"M">>, <<x>>) : x \in ShiftStructures \cup ShiftTimes}
    \cup {JObj(<<"M", "N">>, <<MorningShift, x>>) :
            x \in {JNull, JObj(<<>>, <<>>), ShiftAt("22:00", "6:00"), ShiftAt("24:00", "06:00")}}
    \cup {JObj(<<"M", "N">>, <<ShiftAt("08:00", "24:00"), JNull>>),
          JObj(<<"1", "M">>, <<JNull, ShiftAt("8:00", "16:00")>>),
          JObj(<<"N", "M">>, <<ShiftAt("22:00", "6:0"), JObj(<<>>, <<>>)>>)}

EmployeesVariants ==
    {Absent, JNull, JStr("x"), JArr(<<>>), JObj(<<>>, <<>>),
     JObj(<<"Jane Doe">>, <<JNull>>),
     JObj(<<"Jane Doe">>, <<JObj(<<>>, <<>>)>>),
     JObj(<<"John Roe">>, <<JStr("#FF5733")>>),
     JObj(<<"John Roe", "Jane Doe">>, <<JObj(<<"color">>, <<JNum("5")>>), JArr(<<>>)>>)}

DeletionPolicyVariants ==
    {Absent, JNull, JNum("5"), JObj(<<>>, <<>>),
     JStr("invalid_policy"), JStr("FULL_SYNC"), JStr(""), JStr("update"),
     JStr("preserve_manual"), JStr("append_only")}

\* ValidPolicies with the i-th policy replaced
WithPolicy(i, v) == [ValidPolicies EXCEPT ![i] = v]

\* event_handling without its i-th field
RECURSIVE Without(_, _, _)
Without(seq, i, j) ==
    IF j > Len(seq) THEN <<>>
    ELSE (IF j = i THEN <<>> ELSE <<seq[j]>>) \o Without(seq, i, j + 1)

EventHandlingWithout(i) ==
    JObj(Without([k \in 1..Len(EventHandlingFields) |-> EventHandlingFields[k][1]], i, 1),
         Without(ValidPolicies, i, 1))

EventHandlingVariants ==
    {Absent, JNull, JStr("x"), JArr(<<>>), JObj(<<>>, <<>>)}
    \cup {EventHandlingWithout(i) : i \in 1..Len(EventHandlingFields)}
    \cup {EventHandling(WithPolicy(i, v)) :
            i \in 1..Len(EventHandlingFields), v \in {JNum("5"), JStr("invalid_value")}}
    \cup {EventHandling(WithPolicy(1, JStr("UPDATE"))),
          EventHandling(WithPolicy(2, JStr("Warn"))),
          EventHandling(WithPolicy(2, JStr("warn_continue"))),
          EventHandling(WithPolicy(5, JStr("warn"))),
          EventHandling(WithPolicy(6, JStr("create"))),
          EventHandling(WithPolicy(3, JStr("retry"))),
          EventHandling([WithPolicy(2, JStr("bad")) EXCEPT ![5] = JStr("bad")]),
          EventHandling([WithPolicy(6, JStr("bad")) EXCEPT ![1] = JNull]),
          JObj(<<"extra_employees", "duplicate_shifts">>, <<JStr("ignore"), JStr("bad")>>)}

TimezoneVariants ==
    {Absent, JNull, JNum("5"), JArr(<<>>),
     JStr("Invalid/Timezone"), JStr(""), JStr("UTC"), JStr("America/New_York")}

CommentVariants == {JStr("kept"), JNull}

Variants(i) ==
    CASE i = 1 -> CalendarsVariants
      [] i = 2 -> ShiftsVariants
      [] i = 3 -> EmployeesVariants
      [] i = 4 -> DeletionPolicyVariants
      [] i = 5 -> EventHandlingVariants
      [] i = 6 -> TimezoneVariants
      [] i = 7 -> CommentVariants

\* the variants that are combined with those of other fields
CombinedVariants(i) ==
    CASE i = 1 -> {Absent, JStr("x"), JArr(<<JNull>>),
                   JArr(<<Calendar(JStr("a@example.com"), JArr(<<JNum("1")>>)),
                          Calendar(JStr("b@example.com"), JNull)>>),
                   JArr(<<Calendar(JStr("a@example.com"),
                                   JArr(<<JNum("1"), JNull, JStr("Ghost")>>))>>)}
      [] i = 2 -> {Absent, JArr(<<>>), JObj(<<"M">>, <<JNull>>),
                   JObj(<<"M">>, <<ShiftAt("8:00", "24:00")>>),
                   JObj(<<"M", "N">>, <<MorningShift,
                                        Shift(JStr("Night Shift"), JStr("#483D8B"), JNull)>>)}
      [] i = 3 -> {Absent, JArr(<<>>), JObj(<<"Jane Doe">>, <<JNull>>)}
      [] i = 4 -> {Absent, JNum("5"), JStr("invalid_policy"), JStr("append_only")}
      [] i = 5 -> {Absent, JNull, EventHandlingWithout(3),
                   EventHandling(WithPolicy(2, JStr("invalid_value"))),
                   EventHandling(WithPolicy(6, JNum("5")))}
      [] i = 6 -> {Absent, JNum("5"), JStr("Invalid/Timezone"), JStr("UTC")}
      [] i = 7 -> {JStr("kept")}

\* ValidFields with the i-th value replaced
WithField(i, v) == [ValidFields EXCEPT ![i] = v]

\* the value sequences for fields i.. with at most budget of them not the valid one
RECURSIVE FieldChoices(_, _)
FieldChoices(i, budget) ==
    IF i > Len(DocFields) THEN {<<>>}
    ELSE {<<ValidFields[i]>> \o rest : rest \in FieldChoices(i + 1, budget)}
         \cup (IF budget = 0 THEN {}
               ELSE {<<v>> \o rest : v \in CombinedVariants(i),
                                     rest \in FieldChoices(i + 1, budget - 1)})

\* documents that are no object, or an object in another key order
OtherDocuments ==
    {JNull, JNum("0"), JNum("5"), JStr(""), JStr("abc"), JBool("true"), JBool("false"),
     JArr(<<>>), JArr(<<ValidConfig>>), JObj(<<>>, <<>>),
     JObj(<<"timezone", "event_handling", "deletion_policy", "employees", "shifts", "calendars">>,
          <<JStr("UTC"), ValidEventHandling, JStr("append_only"), ValidEmployees, ValidShifts,
            ValidCalendars>>),
     JObj(<<"timezone", "calendars">>, <<JNum("1"), JNull>>)}

Documents ==
    {Doc(WithField(i, v)) : i \in 1..Len(DocFields), v \in UNION {Variants(j) : j \in 1..Len(DocFields)}}
    \cup {Doc(vals) : vals \in FieldChoices(1, MaxFaults)}
    \cup OtherDocuments

ReadFailures ==
    {Unreadable("File not found"),
     Unreadable("ENOENT: no such file or directory, open 'config.json'"),
     Unreadable("EACCES: permission denied, open 'config.json'"),
     Unreadable("")}

MalformedTexts ==
    {Malformed("Unexpected token i in JSON at position 2"),
     Malformed("Unexpected end of JSON input")}

Files ==
    ReadFailures \cup {Readable(t) : t \in MalformedTexts}
    \cup {Readable(WellFormed(d)) : d \in Documents}

(***************************************************************************)
(* Specifications                                                          *)
(***************************************************************************)
NotStarted ==
    /\ pc = [c \in Calls |-> "start"]
    /\ result = [c \in Calls |-> Pending]
    /\ ran = [c \in Calls |-> <<>>]

\* one call, on any file of Files
Init ==
    /\ path = [c \in {1} |-> "config.json"]
    /\ fs \in {[p \in Paths |-> IF p = "config.json" THEN f ELSE Unreadable("File not found")] :
                 f \in Files}
    /\ NotStarted

\* strings around the HH:MM format: five characters drawn position by
\* position, and strings that are too short, too long or padded
TimeStrings ==
    {a \o b \o sep \o m \o n : a \in {"0", "1", "2", "3"}, b \in {"0", "3", "4", "9"},
                                sep \in {":", "-"}, m \in {"0", "5", "6"}, n \in {"0", "9", "a"}}
    \cup {"08:00", "23:59", "00:00", "8:00", "24:00", "12:60", "8:0", "22:00", "06:00",
          "", ":", "0800", "08:0", "008:00", "08:000", " 08:00", "08:00 ", "08:00\n",
          "08:00:00", "1:5", "a8:00", "19:59", "20:00", "2:00"}

ListedTimes == {"08:00", "23:59", "8:00", "24:00"}

InitTimes ==
    /\ path = [c \in {1} |-> "config.json"]
    /\ fs \in {[p \in Paths |-> IF p = "config.json" THEN f ELSE Unreadable("File not found")] :
                 f \in ReadFailures
                       \cup {Readable(WellFormed(Doc(WithField(2,
                                JObj(<<"M", "N">>, <<ShiftAt("22:00", "06:00"), ShiftAt(t, u)>>))))) :
                               t \in TimeStrings, u \in ListedTimes}
                       \cup {Readable(WellFormed(Doc(WithField(2,
                                JObj(<<"M", "N">>, <<ShiftAt("22:00", "06:00"), ShiftAt(u, t)>>))))) :
                               t \in TimeStrings, u \in ListedTimes}}
    /\ NotStarted

ConcurrentFiles ==
    {Unreadable("File not found"),
     Readable(Malformed("Unexpected token i in JSON at position 2")),
     Readable(WellFormed(JNull)),
     Readable(WellFormed(ValidConfig)),
     Readable(WellFormed(Doc(WithField(7, JStr("kept"))))),
     Readable(WellFormed(Doc(WithField(2, JObj(<<"M">>, <<ShiftAt("8:00", "16:00")>>))))),
     Readable(WellFormed(Doc(WithField(4, JStr("invalid_policy"))))),
     Readable(WellFormed(Doc(WithField(6, Absent))))}

InitConcurrent ==
    /\ path \in [1..NumCalls -> Paths]
    /\ fs \in [Paths -> ConcurrentFiles]
    /\ NotStarted

Next ==
    \E c \in Calls :
        \/ Call(c)
        \/ ReadFileResolve(c)
        \/ ReadFileReject(c)

Spec == Init /\ [][Next]_vars

\* one call, on the valid document with the times of shift M varied
SpecTimes == InitTimes /\ [][Next]_vars

\* NumCalls calls in flight at once, each on either path
SpecConcurrent == InitConcurrent /\ [][Next]_vars

(***************************************************************************)
(* The configuration as src/src/config/types.ts declares it, and the       *)
(* HH:MM format as the specification words it.  These are what the         *)
(* properties below measure the loader against.                            *)
(***************************************************************************)
DeletionPolicy == {"full_sync", "preserve_manual", "append_only"}

\* IEventHandlingConfig: field name, its literal set, the set as an error lists it
IEventHandlingConfig ==
    << [field |-> "duplicate_shifts", members |-> {"update", "skip", "create_new"},
        listed |-> "update, skip, create_new"],
       [field |-> "overlapping_shifts", members |-> {"error", "warn", "ignore"},
        listed |-> "error, warn, ignore"],
       [field |-> "api_failures", members |-> {"abort", "retry", "log_continue"},
        listed |-> "abort, retry, log_continue"],
       [field |-> "partial_updates", members |-> {"preserve_existing", "revert_all", "continue"},
        listed |-> "preserve_existing, revert_all, continue"],
       [field |-> "missing_employees", members |-> {"error", "warn_continue", "skip"},
        listed |-> "error, warn_continue, skip"],
       [field |-> "extra_employees", members |-> {"create", "warn", "ignore"},
        listed |-> "create, warn, ignore"] >>

DigitValue(ch) ==
    CASE ch = "0" -> 0 [] ch = "1" -> 1 [] ch = "2" -> 2 [] ch = "3" -> 3 [] ch = "4" -> 4
      [] ch = "5" -> 5 [] ch = "6" -> 6 [] ch = "7" -> 7 [] ch = "8" -> 8 [] ch = "9" -> 9

\* five characters HH:MM with HH in 00..23 and MM in 00..59
IsHHMM(str) ==
    /\ Len(str) = 5
    /\ \A i \in {1, 2, 4, 5} : Char(str, i) \in Digits
    /\ Char(str, 3) = ":"
    /\ 10 * DigitValue(Char(str, 1)) + DigitValue(Char(str, 2)) \in 0..23
    /\ 10 * DigitValue(Char(str, 4)) + DigitValue(Char(str, 5)) \in 0..59

IsString(v) == v.t = "string"

IsPlainObject(v) == v.t = "object"

Values(v) == {v.items[i] : i \in 1..Len(v.items)}

ICalendarEntry(v) ==
    /\ IsPlainObject(v)
    /\ In("calendar_id", v) /\ IsString(Get(v, "calendar_id"))
    /\ In("employees", v) /\ IsArray(Get(v, "employees"))

IShiftPeriod(v) ==
    /\ IsPlainObject(v)
    /\ In("start", v) /\ IsString(Get(v, "start")) /\ IsHHMM(Get(v, "start").s)
    /\ In("end", v) /\ IsString(Get(v, "end")) /\ IsHHMM(Get(v, "end").s)

IShiftConfig(v) ==
    /\ IsPlainObject(v)
    /\ In("label", v) /\ IsString(Get(v, "label"))
    /\ In("color", v) /\ IsString(Get(v, "color"))
    /\ In("period", v) /\ IShiftPeriod(Get(v, "period"))

IEventHandling(v) ==
    /\ IsPlainObject(v)
    /\ \A i \in 1..Len(IEventHandlingConfig) :
          LET p == IEventHandlingConfig[i]
          IN  In(p.field, v) /\ IsString(Get(v, p.field)) /\ Get(v, p.field).s \in p.members

\* the configuration a caller may rely on: every declared field present with
\* its coarse type, policies within their literal sets, times in HH:MM, a zone
\* the host resolves
IConfig(v) ==
    /\ IsPlainObject(v)
    /\ In("calendars", v) /\ IsArray(Get(v, "calendars"))
    /\ \A e \in Values(Get(v, "calendars")) : ICalendarEntry(e)
    /\ In("shifts", v) /\ IsPlainObject(Get(v, "shifts"))
    /\ \A e \in Values(Get(v, "shifts")) : IShiftConfig(e)
    /\ In("employees", v) /\ IsPlainObject(Get(v, "employees"))
    /\ In("deletion_policy", v) /\ IsString(Get(v, "deletion_policy"))
    /\ Get(v, "deletion_policy").s \in DeletionPolicy
    /\ In("event_handling", v) /\ IEventHandling(Get(v, "event_handling"))
    /\ In("timezone", v) /\ IsString(Get(v, "timezone"))
    /\ Get(v, "timezone").s \in HostTimeZones

\* obj with obj[field] = v
Put(obj, field, v) ==
    IF In(field, obj)
    THEN [obj EXCEPT !.items = [i \in 1..Len(obj.items) |->
                                  IF obj.keys[i] = field THEN v ELSE obj.items[i]]]
    ELSE [obj EXCEPT !.keys = Append(obj.keys, field), !.items = Append(obj.items, v)]

Done(c) == pc[c] = "done"

\* call c read its file and the text parsed: Parsed(c) is the document
ReadAndParsed(c) ==
    /\ Done(c)
    /\ ~Thrown(fs[path[c]].readError)
    /\ fs[path[c]].text.syntaxError = ""

Parsed(c) == fs[path[c]].text.value

(***************************************************************************)
(* C1  A call that is fulfilled is fulfilled with exactly the value that   *)
(* JSON.parse made of the file's text: nothing added, dropped, defaulted   *)
(* or normalized, undeclared fields included.                              *)
(***************************************************************************)
C1_ReturnsParsedValue ==
    \A c \in Calls :
        /\ Done(c) /\ result[c].state = "fulfilled"
              => ReadAndParsed(c) /\ result[c].value = Parsed(c)
        /\ ReadAndParsed(c) /\ ~Thrown(validateConfig(Parsed(c)))
              => result[c] = Fulfilled(Parsed(c))

\* a fulfilled call whose document holds an undeclared field at the top level
C1_Witness ==
    \E c \in Calls :
        /\ Done(c) /\ result[c].state = "fulfilled"
        /\ In("comment", Parsed(c))
        /\ Get(result[c].value, "comment") = JStr("kept")

(***************************************************************************)
(* C2  When readFile rejects with message m the call is rejected with a    *)
(* plain Error whose message is "Failed to load config file: " followed by *)
(* m, and neither JSON.parse nor validateConfig has run.                   *)
(***************************************************************************)
C2_ReadFailureIsGenericError ==
    \A c \in Calls :
        Done(c) /\ Thrown(fs[path[c]].readError)
            => /\ result[c].state = "rejected"
               /\ result[c].error.class = "Error"
               /\ result[c].error.message =
                      "Failed to load config file: " \o fs[path[c]].readError.message
               /\ ran[c] = <<"readFile">>

C2_Witness ==
    \E c \in Calls :
        /\ Done(c)
        /\ fs[path[c]].readError.message = "File not found"
        /\ result[c].error.message = "Failed to load config file: File not found"

(***************************************************************************)
(* C3  When the read succeeds and the call is rejected, the error is a     *)
(* ConfigValidationError: for text that does not parse its message is      *)
(* "Invalid JSON in config file: " followed by the parser's message, and   *)
(* otherwise it is the error validateConfig threw, unchanged.  This covers *)
(* every parsed value: null, numbers, strings, arrays, null elements.      *)
(***************************************************************************)
C3_ReadableFailureIsValidationError ==
    \A c \in Calls :
        Done(c) /\ ~Thrown(fs[path[c]].readError) /\ result[c].state = "rejected"
            => /\ result[c].error.class = "ConfigValidationError"
               /\ fs[path[c]].text.syntaxError # ""
                    => result[c].error.message =
                           "Invalid JSON in config file: " \o fs[path[c]].text.syntaxError
               /\ fs[path[c]].text.syntaxError = ""
                    => result[c].error = validateConfig(Parsed(c))

\* the document null is rejected as a validation error
C3_Witness ==
    \E c \in Calls :
        /\ ReadAndParsed(c)
        /\ Parsed(c) = JNull
        /\ result[c] = Rejected(ConfigValidationError("config must be an object"))

(***************************************************************************)
(* C4  A document that lacks one of the six declared top-level fields and  *)
(* is a valid configuration once that field is supplied is rejected with   *)
(* "Missing required field '<field>' in config".                          *)
(***************************************************************************)
C4_MissingTopLevelField ==
    \A c \in Calls : \A i \in 1..6 :
        /\ ReadAndParsed(c)
        /\ IsPlainObject(Parsed(c))
        /\ ~In(DocFields[i], Parsed(c))
        /\ IConfig(Put(Parsed(c), DocFields[i], ValidFields[i]))
        => result[c] = Rejected(ConfigValidationError(
                          "Missing required field '" \o DocFields[i] \o "' in config"))

\* the valid document without its timezone, the field declared last
C4_Witness ==
    \E c \in Calls :
        /\ ReadAndParsed(c)
        /\ Parsed(c) = Doc(WithField(6, Absent))
        /\ result[c].error.message = "Missing required field 'timezone' in config"

(***************************************************************************)
(* C5  For deletion_policy and for each of the six event_handling fields:  *)
(* in a document that is a valid configuration once the field holds a      *)
(* member of its set, a string outside the set (compared exactly, case     *)
(* included) is rejected with "Invalid value for '<qualified field>'. Must *)
(* be one of: " and the members joined by ", "; and no document whose      *)
(* field holds a member is rejected with that message.                     *)
(***************************************************************************)
\* the seven policy fields: where each lives, its qualified name, its set
PolicyFields ==
    << [inEventHandling |-> FALSE, field |-> "deletion_policy",
        qualified |-> "deletion_policy", members |-> DeletionPolicy,
        listed |-> "full_sync, preserve_manual, append_only"] >>
    \o [i \in 1..Len(IEventHandlingConfig) |->
          [inEventHandling |-> TRUE, field |-> IEventHandlingConfig[i].field,
           qualified |-> "event_handling." \o IEventHandlingConfig[i].field,
           members |-> IEventHandlingConfig[i].members,
           listed |-> IEventHandlingConfig[i].listed]]

PolicyValue(doc, p) ==
    IF p.inEventHandling THEN Get(Get(doc, "event_handling"), p.field) ELSE Get(doc, p.field)

WithPolicyValue(doc, p, v) ==
    IF p.inEventHandling
    THEN Put(doc, "event_handling", Put(Get(doc, "event_handling"), p.field, v))
    ELSE Put(doc, p.field, v)

InvalidValueError(p) ==
    ConfigValidationError("Invalid value for '" \o p.qualified \o "'. Must be one of: " \o p.listed)

C5_PolicyEnums ==
    \A c \in Calls : \A i \in 1..Len(PolicyFields) :
        LET p == PolicyFields[i]
            v == PolicyValue(Parsed(c), p)
        IN  ReadAndParsed(c) /\ IsString(v)
            => /\ v.s \notin p.members
                  /\ IConfig(WithPolicyValue(Parsed(c), p, JStr(CHOOSE m \in p.members : TRUE)))
                  => result[c] = Rejected(InvalidValueError(p))
               /\ v.s \in p.members => result[c].error # InvalidValueError(p)

\* the last of the seven fields holds a string outside its set
C5_Witness ==
    \E c \in Calls :
        /\ ReadAndParsed(c)
        /\ Parsed(c) = Doc(WithField(5, EventHandling(WithPolicy(6, JStr("invalid_value")))))
        /\ result[c].error.message =
              "Invalid value for 'event_handling.extra_employees'. Must be one of: create, warn, ignore"

(***************************************************************************)
(* C6  For a shift k whose period holds strings start and end, in a        *)
(* document that is a valid configuration once both are valid times: the   *)
(* call is fulfilled exactly when both are HH:MM (five characters, HH in   *)
(* 00..23, MM in 00..59); a start that is not is rejected with "Invalid    *)
(* time format for shifts.<k>.period.start", and with a valid start an end *)
(* that is not is rejected with "...period.end".  No order between start   *)
(* and end is required: 22:00 to 06:00 is accepted.                        *)
(***************************************************************************)
WithPeriod(doc, k, period) ==
    Put(doc, "shifts", Put(Get(doc, "shifts"), k, Put(Get(Get(doc, "shifts"), k), "period", period)))

TimeFormatError(k, which) ==
    ConfigValidationError("Invalid time format for shifts." \o k \o ".period." \o which
                          \o ". Must be HH:MM format.")

ShiftKeys(doc) ==
    IF IsPlainObject(doc) /\ IsPlainObject(Get(doc, "shifts"))
    THEN {Get(doc, "shifts").keys[i] : i \in 1..Len(Get(doc, "shifts").keys)}
    ELSE {}

C6_TimeFormat ==
    \A c \in Calls :
        ReadAndParsed(c) =>
        \A k \in ShiftKeys(Parsed(c)) :
            LET period == Get(Get(Get(Parsed(c), "shifts"), k), "period")
                start == Get(period, "start")
                end == Get(period, "end")
            IN  /\ IsPlainObject(period) /\ IsString(start) /\ IsString(end)
                /\ IConfig(WithPeriod(Parsed(c), k, Period("08:00", "16:00")))
                => /\ result[c].state = "fulfilled" <=> IsHHMM(start.s) /\ IsHHMM(end.s)
                   /\ ~IsHHMM(start.s) => result[c] = Rejected(TimeFormatError(k, "start"))
                   /\ IsHHMM(start.s) /\ ~IsHHMM(end.s)
                         => result[c] = Rejected(TimeFormatError(k, "end"))

\* the overnight shift M passes and the end of N, 24:00, is rejected
C6_Witness ==
    \E c \in Calls :
        /\ ReadAndParsed(c)
        /\ Get(Parsed(c), "shifts") = JObj(<<"M", "N">>, <<ShiftAt("22:00", "06:00"),
                                                          ShiftAt("23:59", "24:00")>>)
        /\ result[c] = Rejected(TimeFormatError("N", "end"))

(***************************************************************************)
(* C7  Validation fails closed: a fulfilled call's value is a              *)
(* configuration (all six fields with their coarse types, every policy in  *)
(* its literal set, every calendar entry and shift well-formed, times in   *)
(* HH:MM, a zone the host resolves), and it is the parsed document itself, *)
(* with no default put in place of a missing or invalid value.             *)
(***************************************************************************)
C7_FailsClosed ==
    \A c \in Calls :
        Done(c) /\ result[c].state = "fulfilled"
            => IConfig(result[c].value) /\ result[c].value = fs[path[c]].text.value

\* the valid document of the test suite is loaded
C7_Witness ==
    \E c \in Calls : Done(c) /\ result[c] = Fulfilled(ValidConfig)

(***************************************************************************)
(* C8  validateConfig reports one error, that of the first violation in    *)
(* the order: top-level fields (calendars, shifts, employees,              *)
(* deletion_policy, event_handling, timezone; presence, then type, field   *)
(* by field); the deletion_policy set; calendar entries by index; shifts   *)
(* in iteration order (shift fields, period fields, start, end);           *)
(* event_handling fields, then its six sets in order; timezone.            *)
(* AllViolations lists every violation of a document in that order, each   *)
(* judged on its own; the call is rejected with the first of them.         *)
(***************************************************************************)
IConfigFields ==
    << <<"calendars", "array">>, <<"shifts", "object">>, <<"employees", "object">>,
       <<"deletion_policy", "string">>, <<"event_handling", "object">>,
       <<"timezone", "string">> >>

KindOk(kind, v) ==
    CASE kind = "string" -> IsString(v)
      [] kind = "array" -> IsArray(v)
      [] kind = "object" -> IsPlainObject(v)

KindWord(kind) ==
    CASE kind = "string" -> "a string"
      [] kind = "array" -> "an array"
      [] kind = "object" -> "an object"

RECURSIVE FieldViolations(_, _, _, _)
FieldViolations(obj, fields, name, i) ==
    IF i > Len(fields) THEN <<>>
    ELSE (IF ~In(fields[i][1], obj)
          THEN <<"Missing required field '" \o fields[i][1] \o "' in " \o name>>
          ELSE IF ~KindOk(fields[i][2], Get(obj, fields[i][1]))
          THEN <<"Field '" \o fields[i][1] \o "' in " \o name \o " must be "
                 \o KindWord(fields[i][2])>>
          ELSE <<>>)
         \o FieldViolations(obj, fields, name, i + 1)

\* a value that is no object at all violates once; an array has no fields
ObjectViolations(obj, fields, name) ==
    IF obj.t \notin {"object", "array"}
    THEN <<name \o " must be an object">>
    ELSE FieldViolations(obj, fields, name, 1)

PolicyViolations(doc, p) ==
    IF IsString(PolicyValue(doc, p)) /\ PolicyValue(doc, p).s \notin p.members
    THEN <<InvalidValueError(p).message>>
    ELSE <<>>

RECURSIVE CalendarViolations(_, _)
CalendarViolations(calendars, i) ==
    IF i > Len(calendars.items) THEN <<>>
    ELSE ObjectViolations(calendars.items[i],
                          << <<"calendar_id", "string">>, <<"employees", "array">> >>,
                          "calendars[" \o ToString(i - 1) \o "]")
         \o CalendarViolations(calendars, i + 1)

TimeViolations(k, period, which) ==
    IF IsString(Get(period, which)) /\ ~IsHHMM(Get(period, which).s)
    THEN <<TimeFormatError(k, which).message>>
    ELSE <<>>

ShiftViolationsOf(k, shift) ==
    ObjectViolations(shift,
                     << <<"label", "string">>, <<"color", "string">>, <<"period", "object">> >>,
                     "shifts." \o k)
    \o (IF IsPlainObject(Get(shift, "period"))
        THEN ObjectViolations(Get(shift, "period"),
                              << <<"start", "string">>, <<"end", "string">> >>,
                              "shifts." \o k \o ".period")
             \o TimeViolations(k, Get(shift, "period"), "start")
             \o TimeViolations(k, Get(shift, "period"), "end")
        ELSE <<>>)

RECURSIVE ShiftViolations(_, _)
ShiftViolations(shifts, i) ==
    IF i > Len(shifts.keys) THEN <<>>
    ELSE ShiftViolationsOf(shifts.keys[i], shifts.items[i]) \o ShiftViolations(shifts, i + 1)

RECURSIVE EventPolicyViolations(_, _)
EventPolicyViolations(doc, i) ==
    IF i > Len(PolicyFields) THEN <<>>
    ELSE PolicyViolations(doc, PolicyFields[i]) \o EventPolicyViolations(doc, i + 1)

AllViolations(doc) ==
    IF doc.t \notin {"object", "array"} THEN <<"config must be an object">>
    ELSE FieldViolations(doc, IConfigFields, "config", 1)
         \o PolicyViolations(doc, PolicyFields[1])
         \o (IF IsArray(Get(doc, "calendars"))
             THEN CalendarViolations(Get(doc, "calendars"), 1) ELSE <<>>)
         \o (IF IsPlainObject(Get(doc, "shifts"))
             THEN ShiftViolations(Get(doc, "shifts"), 1) ELSE <<>>)
         \o (IF IsPlainObject(Get(doc, "event_handling"))
             THEN FieldViolations(Get(doc, "event_handling"),
                                  [i \in 1..Len(IEventHandlingConfig) |->
                                     <<IEventHandlingConfig[i].field, "string">>],
                                  "event_handling", 1)
                  \o EventPolicyViolations(doc, 2)
             ELSE <<>>)
         \o (IF IsString(Get(doc, "timezone")) /\ Get(doc, "timezone").s \notin HostTimeZones
             THEN <<"Invalid timezone: " \o Get(doc, "timezone").s>> ELSE <<>>)

C8_FirstViolationOnly ==
    \A c \in Calls :
        ReadAndParsed(c) =>
            IF AllViolations(Parsed(c)) = <<>>
            THEN result[c].state = "fulfilled"
            ELSE result[c] = Rejected(ConfigValidationError(Head(AllViolations(Parsed(c)))))

\* violations at the deletion_policy, shifts and timezone steps: the first is reported
C8_Witness ==
    \E c \in Calls :
        /\ ReadAndParsed(c)
        /\ Parsed(c) = Doc([ValidFields EXCEPT ![4] = JStr("invalid_policy"),
                                               ![2] = JObj(<<"M">>, <<ShiftAt("8:00", "24:00")>>),
                                               ![6] = JStr("Invalid/Timezone")])
        /\ Len(AllViolations(Parsed(c))) = 4
        /\ result[c].error.message =
              "Invalid value for 'deletion_policy'. Must be one of: full_sync, preserve_manual, append_only"

(***************************************************************************)
(* C9  Calls in flight together: in every interleaving of the completions  *)
(* of their reads, each call settles as it would alone on the file at its  *)
(* own path, and has run its own steps only.                               *)
(***************************************************************************)
\* how one call on file f settles when nothing else runs
Alone(f) ==
    IF Thrown(f.readError)
    THEN Rejected(Catch(f.readError))
    ELSE AfterRead(f.text)

C9_ConcurrentCallsIndependent ==
    \A c \in Calls :
        /\ Done(c) => result[c] = Alone(fs[path[c]])
        /\ ~Done(c) => result[c] = Pending
        /\ pc[c] = "start" => ran[c] = <<>>

\* call 2 has settled on its own file while call 1, entered on another file,
\* still waits for its read
C9_Witness ==
    /\ Cardinality(Calls) >= 2
    /\ pc[1] = "awaitReadFile" /\ pc[2] = "done"
    /\ path[1] # path[2]
    /\ fs[path[1]] = Unreadable("File not found")
    /\ result[2] = Fulfilled(ValidConfig)

(***************************************************************************)
(* C10  Acceptance does not depend on what the employees array of a        *)
(* calendar holds nor on the values of the employees mapping: a document   *)
(* is accepted exactly when the same document with those arrays and that   *)
(* mapping emptied is accepted.  Non-string employees, names that are no   *)
(* key of the mapping, and entries of the mapping that lack a color or are *)
(* no object change nothing.                                               *)
(***************************************************************************)
EmptyEmployees(calendar) ==
    IF IsPlainObject(calendar) /\ IsArray(Get(calendar, "employees"))
    THEN Put(calendar, "employees", JArr(<<>>))
    ELSE calendar

Emptied(doc) ==
    LET d1 == IF IsPlainObject(Get(doc, "employees"))
              THEN Put(doc, "employees", JObj(<<>>, <<>>)) ELSE doc
        cals == Get(doc, "calendars")
    IN  IF IsArray(cals)
        THEN Put(d1, "calendars",
                 JArr([i \in 1..Len(cals.items) |-> EmptyEmployees(cals.items[i])]))
        ELSE d1

C10_EmployeesUnchecked ==
    \A c \in Calls :
        ReadAndParsed(c) /\ IsPlainObject(Parsed(c))
            => (result[c].state = "fulfilled" <=> IConfig(Emptied(Parsed(c))))

\* accepted: a calendar lists non-strings and a name that is no key of the
\* mapping, and the mapping's one entry is null
C10_Witness ==
    \E c \in Calls :
        /\ ReadAndParsed(c)
        /\ Get(Parsed(c), "calendars") =
              JArr(<<Calendar(JStr("a@example.com"), JArr(<<JNum("1"), JNull, JStr("Ghost")>>))>>)
        /\ Get(Parsed(c), "employees") = JObj(<<"Jane Doe">>, <<JNull>>)
        /\ result[c].state = "fulfilled"

====
